---- MODULE Spec2Model ----
(***************************************************************************)
(* The RockPaperScissors wagering ledger (contracts/RockPaperScissors.sol) *)
(* as a state machine.                                                     *)
(*                                                                         *)
(* Value unit: 10^13 wei, so 0.005 ether = 500 units.  All percentage      *)
(* splits use truncating integer division, as uint256 division does.       *)
(*                                                                         *)
(* An external call made with call{value: ...} hands control to the        *)
(* recipient.  The operations that make such a call are split at the call: *)
(* the first half pushes a frame on `stack` (with a snapshot of the state  *)
(* at entry), the recipient may then invoke further operations, and        *)
(* finally accepts (the operation completes) or rejects (the operation     *)
(* reverts to the snapshot).  A state with stack = <<>> is a committed     *)
(* state.                                                                  *)
(*                                                                         *)
(* claimAllRewards is defined only in the contract source carried by       *)
(* frontend/src/contracts/contractConfig.ts; it is modelled as written     *)
(* there, acting on the same ledger.                                       *)
(*                                                                         *)
(* The front end's retry helper withRateLimit is a program of its own; it  *)
(* is followed in the variable `rl` under the specification SpecRateLimit, *)
(* at the end of the module.                                               *)
(***************************************************************************)
EXTENDS Integers, Sequences, FiniteSets, TLC

VARIABLES
    locked,          \* bool private locked
    owner,           \* address public owner
    creatorFees,     \* uint256 public creatorFees
    gameBank,        \* uint256 public gameBank
    isPaused,        \* bool public isPaused
    tierToAmount,    \* mapping(BetTier => uint256)
    playerStats,     \* mapping(address => PlayerStats)
    pendingRewards,  \* mapping(address => PendingReward[])
    balance,         \* address(this).balance
    wallet,          \* the balance of every account
    now,             \* block.timestamp
    blockNumber,     \* block.number
    txCount,         \* the calls that passed their checks so far
    stack,           \* the operations suspended in an outbound transfer
    lastCall,        \* the most recent call and how it ended
    rl               \* one run of withRateLimit (frontend/src/utils)

ledgerVars == <<locked, creatorFees, gameBank, isPaused, tierToAmount,
                playerStats, pendingRewards, balance, wallet>>
vars == <<locked, owner, creatorFees, gameBank, isPaused, tierToAmount,
          playerStats, pendingRewards, balance, wallet, now, blockNumber,
          txCount, stack, lastCall, rl>>

----------------------------------------------------------------------------
(* Bounds *)

InitialFunds == 600     \* what every account holds at deployment
DepositValue == 500     \* the value of a direct deposit
MaxRewards == 2         \* longest reward sequence explored per player
MaxBlocks == 1          \* blocks mined after deployment
MaxDepth == 2           \* deepest nesting of suspended operations
MaxTx == 3              \* calls that pass their checks in one run
MaxStake == 200         \* largest stake of the splits checked on their own

----------------------------------------------------------------------------
(* Types and constants of the contract *)

Accounts == {"owner", "alice"}
Deployer == "owner"

Rock == 0
Paper == 1
Scissors == 2
Move == {Rock, Paper, Scissors}

TIER_1 == 0
TIER_2 == 1
TIER_3 == 2
TIER_4 == 3
TIER_5 == 4
BetTier == {TIER_1, TIER_2, TIER_3, TIER_4, TIER_5}

COOLDOWN == 15
MAX_BET_AMOUNT == 100000

\* a variant with 0.02 ether for the third tier
ConstructorTierToAmount_WrongTier ==
    (TIER_1 :> 500) @@ (TIER_2 :> 1000) @@ (TIER_3 :> 2000) @@
    (TIER_4 :> 5000) @@ (TIER_5 :> 10000)

ConstructorTierToAmount ==
    (TIER_1 :> 500) @@ (TIER_2 :> 1000) @@ (TIER_3 :> 2500) @@
    (TIER_4 :> 5000) @@ (TIER_5 :> 10000)

\* What a call can end with.
Ok == "ok"
InTransfer == "in transfer"
ReentrancyError == "ReentrancyGuard: reentrant call"
NotOwner == "Not owner"
GamePaused == "Game is paused"
IncorrectAmount == "Incorrect ETH amount sent"
WaitBeforePlaying == "Wait before playing again"
InvalidRewardIndex == "InvalidRewardIndex"
RewardAlreadyClaimed == "RewardAlreadyClaimed"
TransferFailed == "TransferFailed"
AmountExceedsMaximum == "Amount exceeds maximum allowed bet"
ArithmeticPanic == "Panic(0x11)"
NoUnclaimedRewards == "No unclaimed rewards"
InsufficientBalance == "Insufficient balance"
ClaimFailed == "Claim failed"
Deprecated == "This function is deprecated. Use playGame instead."

----------------------------------------------------------------------------
(* Pure functions of the contract *)

\* a variant with the relation the wrong way round
_didPlayerWin_Reversed(player, ai) ==
    \/ (ai = Rock /\ player = Scissors)
    \/ (ai = Paper /\ player = Rock)
    \/ (ai = Scissors /\ player = Paper)

_didPlayerWin(player, ai) ==
    \/ (player = Rock /\ ai = Scissors)
    \/ (player = Paper /\ ai = Rock)
    \/ (player = Scissors /\ ai = Paper)

Outcome(playerMove, contractMove) ==
    IF _didPlayerWin(playerMove, contractMove) THEN "Win"
    ELSE IF playerMove = contractMove THEN "Draw"
    ELSE "Lose"

\* the payout without the stake
WinPayout_ProfitOnly(betAmount) == (betAmount * 92) \div 100
WinPayout(betAmount) == betAmount + (betAmount * 92) \div 100
WinNetGain(betAmount) == (betAmount * 92) \div 100
WinCreatorFee(betAmount) == (betAmount * 3) \div 100
\* the pool share of a lost wager
WinGameBank_AsLose(betAmount) == (betAmount * 97) \div 100
WinGameBank(betAmount) == (betAmount * 7) \div 100
\* rounded to nearest
DrawRefund_Rounded(betAmount) == (betAmount * 98 + 50) \div 100
DrawRefund(betAmount) == (betAmount * 98) \div 100
\* divided before it is multiplied
DrawCreatorFee_DividesFirst(betAmount) == (betAmount \div 100) * 2
DrawCreatorFee(betAmount) == (betAmount * 2) \div 100
LoseCreatorFee(betAmount) == (betAmount * 3) \div 100
\* whatever the fee leaves
LoseGameBank_Remainder(betAmount) == betAmount - (betAmount * 3) \div 100
LoseGameBank(betAmount) == (betAmount * 97) \div 100

CooldownElapsed(timestamp, lastPlayTime) == timestamp >= lastPlayTime + COOLDOWN

PendingReward(amount, claimed) == [amount |-> amount, claimed |-> claimed]

\* the new entry written over the array
PushReward_Overwrites(rewards, amount) == <<PendingReward(amount, FALSE)>>

\* the array rebuilt with fresh entries
PushReward_ResetsFlags(rewards, amount) ==
    Append([i \in DOMAIN rewards |-> PendingReward(rewards[i].amount, FALSE)],
           PendingReward(amount, FALSE))

\* pendingRewards[msg.sender].push(PendingReward(amount, false))
PushReward(rewards, amount) == Append(rewards, PendingReward(amount, FALSE))

\* the flag left as it was
MarkClaimed_Forgets(rewards, index) == rewards

\* rewards[index].claimed = true   (index is zero-based, as in the contract)
MarkClaimed(rewards, index) ==
    [rewards EXCEPT ![index + 1].claimed = TRUE]

RECURSIVE TotalToClaim(_)
\* the loop of claimAllRewards: the sum of the unclaimed amounts
TotalToClaim(rewards) ==
    IF rewards = <<>> THEN 0
    ELSE (IF Head(rewards).claimed THEN 0 ELSE Head(rewards).amount)
         + TotalToClaim(Tail(rewards))

\* a variant that leaves the flags as they are
MarkAllClaimed_None(rewards) == rewards

\* the loop of claimAllRewards: every entry marked claimed
MarkAllClaimed(rewards) ==
    [i \in DOMAIN rewards |-> [rewards[i] EXCEPT !.claimed = TRUE]]

----------------------------------------------------------------------------
(* Calls, frames and rollback *)

Depth == Len(stack)
Top == stack[Len(stack)]

\* msg.sender: any account at top level, the recipient that is executing
\* inside a transfer.
Callers == IF stack = <<>> THEN Accounts ELSE {Top.to}

Snapshot ==
    [locked |-> locked, creatorFees |-> creatorFees, gameBank |-> gameBank,
     isPaused |-> isPaused, tierToAmount |-> tierToAmount,
     playerStats |-> playerStats, pendingRewards |-> pendingRewards,
     balance |-> balance, wallet |-> wallet]

\* The state as of the last committed operation.
Committed == IF stack = <<>> THEN Snapshot ELSE stack[1].saved

Call(op, who, status, arg, value, result, netWin) ==
    [op |-> op, who |-> who, status |-> status, arg |-> arg, value |-> value,
     result |-> result, netWin |-> netWin]

\* revert: nothing changes
Revert(op, who, status) ==
    /\ lastCall' = Call(op, who, status, 0, 0, "", 0)
    /\ UNCHANGED <<ledgerVars, owner, now, blockNumber, txCount, stack>>

\* the call passes its checks
Proceed == txCount < MaxTx /\ txCount' = txCount + 1

Frame(op, who, to, arg, amount, guarded, failure) ==
    [op |-> op, who |-> who, to |-> to, arg |-> arg, amount |-> amount,
     guarded |-> guarded, failure |-> failure, saved |-> Snapshot]

\* the front end's retry helper is not part of the contract: while the
\* contract runs, no run of it is in progress
NotCalled == [pc |-> "not called"]

----------------------------------------------------------------------------
Init ==
    /\ locked = FALSE
    /\ owner = Deployer
    /\ creatorFees = 0
    /\ gameBank = 0
    /\ isPaused = FALSE
    /\ tierToAmount = ConstructorTierToAmount
    /\ playerStats = [a \in Accounts |-> [lastPlayTime |-> 0, totalWins |-> 0]]
    /\ pendingRewards = [a \in Accounts |-> <<>>]
    /\ balance = 0
    /\ wallet = [a \in Accounts |-> InitialFunds]
    /\ now = COOLDOWN
    /\ blockNumber = 0
    /\ txCount = 0
    /\ stack = <<>>
    /\ lastCall = Call("constructor", Deployer, Ok, 0, 0, "", 0)
    /\ rl = NotCalled

----------------------------------------------------------------------------
(* playGame: nonReentrant notPaused validBetAmount(tierToAmount[tier]) *)

\* a variant that accepts an overpaid stake
validBetAmount_AtLeast(value, amount) == value >= amount

\* modifier validBetAmount: msg.value == amount
validBetAmount(value, amount) == value = amount

\* a variant that lets every call through
notPaused_Always(paused) == TRUE

\* modifier notPaused: !isPaused
notPaused(paused) == ~paused

\* a variant that records the number of the block
PlayedAt_BlockNumber(timestamp) == blockNumber

\* playerStats[msg.sender].lastPlayTime = block.timestamp
PlayedAt(timestamp) == timestamp

\* a variant that adds the net gain, as the older contract did
CountWin_AddsNetGain(totalWins) == totalWins + WinNetGain(tierToAmount[TIER_1])

\* playerStats[msg.sender].totalWins += 1
CountWin(totalWins) == totalWins + 1

\* a variant that sends the creator's share out at once
Credited_FeeSentOut(held, value) == held + value - (value * 3) \div 100

\* payable: msg.value is added to address(this).balance
Credited(held, value) == held + value

\* a variant without nonReentrant
PlayGame_Unguarded(who, playerMove, tier, value, contractMove) ==
    /\ wallet[who] >= value
    /\ IF ~notPaused(isPaused) THEN Revert("playGame", who, GamePaused)
       ELSE IF ~validBetAmount(value, tierToAmount[tier])
            THEN Revert("playGame", who, IncorrectAmount)
       ELSE IF ~CooldownElapsed(now, playerStats[who].lastPlayTime)
            THEN Revert("playGame", who, WaitBeforePlaying)
       ELSE
         LET betAmount == tierToAmount[tier]
             result == Outcome(playerMove, contractMove)
         IN
         /\ Len(pendingRewards[who]) < MaxRewards
         /\ Proceed
         /\ balance' = Credited(balance, value)
         /\ wallet' = [wallet EXCEPT ![who] = @ - value]
         /\ locked' = locked
         /\ IF result = "Win" THEN
              /\ pendingRewards' = [pendingRewards EXCEPT ![who] =
                     PushReward(@, WinPayout(betAmount))]
              /\ creatorFees' = creatorFees + WinCreatorFee(betAmount)
              /\ gameBank' = gameBank + WinGameBank(betAmount)
              /\ playerStats' = [playerStats EXCEPT
                     ![who].totalWins = CountWin(@),
                     ![who].lastPlayTime = PlayedAt(now)]
              /\ lastCall' = Call("playGame", who, Ok, tier, value, "Win",
                                  WinNetGain(betAmount))
            ELSE IF result = "Draw" THEN
              /\ pendingRewards' = [pendingRewards EXCEPT ![who] =
                     PushReward(@, DrawRefund(betAmount))]
              /\ creatorFees' = creatorFees + DrawCreatorFee(betAmount)
              /\ gameBank' = gameBank
              /\ playerStats' = [playerStats EXCEPT
                     ![who].lastPlayTime = PlayedAt(now)]
              /\ lastCall' = Call("playGame", who, Ok, tier, value, "Draw", 0)
            ELSE
              /\ pendingRewards' = pendingRewards
              /\ creatorFees' = creatorFees + LoseCreatorFee(betAmount)
              /\ gameBank' = gameBank + LoseGameBank(betAmount)
              /\ playerStats' = [playerStats EXCEPT
                     ![who].lastPlayTime = PlayedAt(now)]
              /\ lastCall' = Call("playGame", who, Ok, tier, value, "Lose", 0)
         /\ UNCHANGED <<owner, isPaused, tierToAmount, now, blockNumber, stack>>

\* playGame
PlayGame(who, playerMove, tier, value, contractMove) ==
    /\ wallet[who] >= value
    /\ IF locked THEN Revert("playGame", who, ReentrancyError)
       ELSE IF ~notPaused(isPaused) THEN Revert("playGame", who, GamePaused)
       ELSE IF ~validBetAmount(value, tierToAmount[tier])
            THEN Revert("playGame", who, IncorrectAmount)
       ELSE IF ~CooldownElapsed(now, playerStats[who].lastPlayTime)
            THEN Revert("playGame", who, WaitBeforePlaying)
       ELSE
         LET betAmount == tierToAmount[tier]
             result == Outcome(playerMove, contractMove)
         IN
         /\ Len(pendingRewards[who]) < MaxRewards
         /\ Proceed
         /\ balance' = Credited(balance, value)
         /\ wallet' = [wallet EXCEPT ![who] = @ - value]
         /\ locked' = FALSE
         /\ IF result = "Win" THEN
              /\ pendingRewards' = [pendingRewards EXCEPT ![who] =
                     PushReward(@, WinPayout(betAmount))]
              /\ creatorFees' = creatorFees + WinCreatorFee(betAmount)
              /\ gameBank' = gameBank + WinGameBank(betAmount)
              /\ playerStats' = [playerStats EXCEPT
                     ![who].totalWins = CountWin(@),
                     ![who].lastPlayTime = PlayedAt(now)]
              /\ lastCall' = Call("playGame", who, Ok, tier, value, "Win",
                                  WinNetGain(betAmount))
            ELSE IF result = "Draw" THEN
              /\ pendingRewards' = [pendingRewards EXCEPT ![who] =
                     PushReward(@, DrawRefund(betAmount))]
              /\ creatorFees' = creatorFees + DrawCreatorFee(betAmount)
              /\ gameBank' = gameBank
              /\ playerStats' = [playerStats EXCEPT
                     ![who].lastPlayTime = PlayedAt(now)]
              /\ lastCall' = Call("playGame", who, Ok, tier, value, "Draw", 0)
            ELSE
              /\ pendingRewards' = pendingRewards
              /\ creatorFees' = creatorFees + LoseCreatorFee(betAmount)
              /\ gameBank' = gameBank + LoseGameBank(betAmount)
              /\ playerStats' = [playerStats EXCEPT
                     ![who].lastPlayTime = PlayedAt(now)]
              /\ lastCall' = Call("playGame", who, Ok, tier, value, "Lose", 0)
         /\ UNCHANGED <<owner, isPaused, tierToAmount, now, blockNumber, stack>>

----------------------------------------------------------------------------
(* Outbound transfers *)

\* <recipient>.call{value: amount}("") with enough balance: the value moves
\* and the recipient runs.
BeginTransfer(op, who, to, arg, amount, guarded, failure) ==
    /\ balance' = balance - amount
    /\ wallet' = [wallet EXCEPT ![to] = @ + amount]
    /\ Proceed
    /\ stack' = Append(stack, Frame(op, who, to, arg, amount, guarded,
                                      failure))
    /\ lastCall' = Call(op, who, InTransfer, arg, amount, "", 0)

\* a variant that looks at the entries of the owner
CallerRewards_OfOwner(who) == pendingRewards[owner]

\* PendingReward[] storage rewards = pendingRewards[msg.sender]
CallerRewards(who) == pendingRewards[who]

\* a variant that never finds an entry claimed
IsClaimed_Never(rewards, index) == FALSE

\* rewards[index].claimed
IsClaimed(rewards, index) == rewards[index + 1].claimed

\* a variant that refuses claims while the game is paused
ClaimReward_WhenNotPaused(who, index) ==
    /\ LET rewards == CallerRewards(who) IN
        IF locked THEN Revert("claimReward", who, ReentrancyError)
        ELSE IF ~notPaused(isPaused)
             THEN Revert("claimReward", who, GamePaused)
        ELSE IF index >= Len(rewards)
             THEN Revert("claimReward", who, InvalidRewardIndex)
        ELSE IF IsClaimed(rewards, index)
             THEN Revert("claimReward", who, RewardAlreadyClaimed)
        ELSE LET amount == rewards[index + 1].amount IN
             IF balance < amount
             THEN Revert("claimReward", who, TransferFailed)
             ELSE /\ Depth < MaxDepth
                  /\ locked' = TRUE
                  /\ pendingRewards' = [pendingRewards EXCEPT
                         ![who] = MarkClaimed(rewards, index)]
                  /\ BeginTransfer("claimReward", who, who, index, amount, TRUE,
                                   TransferFailed)
                  /\ UNCHANGED <<owner, creatorFees, gameBank, isPaused,
                                 tierToAmount, playerStats, now, blockNumber>>

\* a variant that takes the payment out of the pool
ClaimReward_DebitsBank(who, index) ==
    /\ LET rewards == CallerRewards(who) IN
        IF locked THEN Revert("claimReward", who, ReentrancyError)
        ELSE IF index >= Len(rewards)
             THEN Revert("claimReward", who, InvalidRewardIndex)
        ELSE IF IsClaimed(rewards, index)
             THEN Revert("claimReward", who, RewardAlreadyClaimed)
        ELSE LET amount == rewards[index + 1].amount IN
             IF balance < amount
             THEN Revert("claimReward", who, TransferFailed)
             ELSE /\ Depth < MaxDepth
                  /\ locked' = TRUE
                  /\ pendingRewards' = [pendingRewards EXCEPT
                         ![who] = MarkClaimed(rewards, index)]
                  /\ gameBank' = IF gameBank >= amount THEN gameBank - amount
                                 ELSE 0
                  /\ BeginTransfer("claimReward", who, who, index, amount, TRUE,
                                   TransferFailed)
                  /\ UNCHANGED <<owner, creatorFees, isPaused, tierToAmount,
                                 playerStats, now, blockNumber>>

\* a variant that starts the transfer with the entry still unclaimed
ClaimReward_TransfersFirst(who, index) ==
    /\ LET rewards == CallerRewards(who) IN
        IF locked THEN Revert("claimReward", who, ReentrancyError)
        ELSE IF index >= Len(rewards)
             THEN Revert("claimReward", who, InvalidRewardIndex)
        ELSE IF IsClaimed(rewards, index)
             THEN Revert("claimReward", who, RewardAlreadyClaimed)
        ELSE LET amount == rewards[index + 1].amount IN
             IF balance < amount
             THEN Revert("claimReward", who, TransferFailed)
             ELSE /\ Depth < MaxDepth
                  /\ locked' = TRUE
                  /\ BeginTransfer("claimReward", who, who, index, amount, TRUE,
                                   TransferFailed)
                  /\ UNCHANGED <<owner, creatorFees, gameBank, isPaused,
                                 tierToAmount, playerStats, pendingRewards, now,
                                 blockNumber>>

\* claimReward: nonReentrant
ClaimReward(who, index) ==
    /\ LET rewards == CallerRewards(who) IN
        IF locked THEN Revert("claimReward", who, ReentrancyError)
        ELSE IF index >= Len(rewards)
             THEN Revert("claimReward", who, InvalidRewardIndex)
        ELSE IF IsClaimed(rewards, index)
             THEN Revert("claimReward", who, RewardAlreadyClaimed)
        ELSE LET amount == rewards[index + 1].amount IN
             IF balance < amount
             THEN Revert("claimReward", who, TransferFailed)
             ELSE /\ Depth < MaxDepth
                  /\ locked' = TRUE
                  /\ pendingRewards' = [pendingRewards EXCEPT
                         ![who] = MarkClaimed(rewards, index)]
                  /\ BeginTransfer("claimReward", who, who, index, amount, TRUE,
                                   TransferFailed)
                  /\ UNCHANGED <<owner, creatorFees, gameBank, isPaused,
                                 tierToAmount, playerStats, now, blockNumber>>

\* claimAllRewards (contractConfig.ts): no modifier
ClaimAllRewards(who) ==
    /\ LET rewards == pendingRewards[who]
            totalToClaim == TotalToClaim(rewards)
        IN
        IF ~(totalToClaim > 0)
        THEN Revert("claimAllRewards", who, NoUnclaimedRewards)
        ELSE IF ~(balance >= totalToClaim)
        THEN Revert("claimAllRewards", who, InsufficientBalance)
        ELSE /\ Depth < MaxDepth
             /\ pendingRewards' = [pendingRewards EXCEPT
                    ![who] = MarkAllClaimed(rewards)]
             /\ BeginTransfer("claimAllRewards", who, who, 0, totalToClaim, FALSE,
                              ClaimFailed)
             /\ UNCHANGED <<locked, owner, creatorFees, gameBank, isPaused,
                            tierToAmount, playerStats, now, blockNumber>>

\* a variant that does not reset creatorFees
WithdrawCreatorFees_KeepsFees(who) ==
    /\ IF locked THEN Revert("withdrawCreatorFees", who, ReentrancyError)
        ELSE IF who # owner THEN Revert("withdrawCreatorFees", who, NotOwner)
        ELSE LET amount == creatorFees IN
             IF balance < amount
             THEN Revert("withdrawCreatorFees", who, TransferFailed)
             ELSE /\ Depth < MaxDepth
                  /\ locked' = TRUE
                  /\ BeginTransfer("withdrawCreatorFees", who, owner, 0, amount,
                                   TRUE, TransferFailed)
                  /\ UNCHANGED <<owner, creatorFees, gameBank, isPaused,
                                 tierToAmount, playerStats, pendingRewards, now,
                                 blockNumber>>

\* withdrawCreatorFees: nonReentrant onlyOwner
WithdrawCreatorFees(who) ==
    /\ IF locked THEN Revert("withdrawCreatorFees", who, ReentrancyError)
        ELSE IF who # owner THEN Revert("withdrawCreatorFees", who, NotOwner)
        ELSE LET amount == creatorFees IN
             IF balance < amount
             THEN Revert("withdrawCreatorFees", who, TransferFailed)
             ELSE /\ Depth < MaxDepth
                  /\ locked' = TRUE
                  /\ creatorFees' = 0
                  /\ BeginTransfer("withdrawCreatorFees", who, owner, 0, amount,
                                   TRUE, TransferFailed)
                  /\ UNCHANGED <<owner, gameBank, isPaused, tierToAmount,
                                 playerStats, pendingRewards, now, blockNumber>>

\* a variant that writes the pool off together with the balance
EmergencyWithdraw_ClearsBank(who) ==
    /\ IF who # owner THEN Revert("emergencyWithdraw", who, NotOwner)
        ELSE LET amount == balance IN
             /\ Depth < MaxDepth
             /\ gameBank' = 0
             /\ BeginTransfer("emergencyWithdraw", who, owner, 0, amount, FALSE,
                              TransferFailed)
             /\ UNCHANGED <<locked, owner, creatorFees, isPaused, tierToAmount,
                            playerStats, pendingRewards, now, blockNumber>>

\* emergencyWithdraw: onlyOwner
EmergencyWithdraw(who) ==
    /\ IF who # owner THEN Revert("emergencyWithdraw", who, NotOwner)
        ELSE LET amount == balance IN
             /\ Depth < MaxDepth
             /\ BeginTransfer("emergencyWithdraw", who, owner, 0, amount, FALSE,
                              TransferFailed)
             /\ UNCHANGED <<locked, owner, creatorFees, gameBank, isPaused,
                            tierToAmount, playerStats, pendingRewards, now,
                            blockNumber>>

\* a variant without the tail of nonReentrant
TransferAccepted_KeepsLock ==
    /\ stack # <<>>
    /\ stack' = SubSeq(stack, 1, Len(stack) - 1)
    /\ lastCall' = Call(Top.op, Top.who, Ok, Top.arg, Top.amount, "", 0)
    /\ UNCHANGED <<locked, owner, creatorFees, gameBank, isPaused,
                   tierToAmount, playerStats, pendingRewards, balance, wallet,
                   now, blockNumber, txCount>>

\* The recipient returns normally: the suspended operation runs to its end
\* (the rest of the body, then the tail of nonReentrant).
TransferAccepted ==
    /\ stack # <<>>
    /\ stack' = SubSeq(stack, 1, Len(stack) - 1)
    /\ locked' = IF Top.guarded THEN FALSE ELSE locked
    /\ lastCall' = Call(Top.op, Top.who, Ok, Top.arg, Top.amount, "", 0)
    /\ UNCHANGED <<owner, creatorFees, gameBank, isPaused, tierToAmount,
                   playerStats, pendingRewards, balance, wallet, now,
                   blockNumber, txCount>>

\* The recipient reverts: success is false, the operation reverts with
\* TransferFailed and everything done since it was entered is undone.
TransferRejected ==
    /\ stack # <<>>
    /\ stack' = SubSeq(stack, 1, Len(stack) - 1)
    /\ locked' = Top.saved.locked
    /\ creatorFees' = Top.saved.creatorFees
    /\ gameBank' = Top.saved.gameBank
    /\ isPaused' = Top.saved.isPaused
    /\ tierToAmount' = Top.saved.tierToAmount
    /\ playerStats' = Top.saved.playerStats
    /\ pendingRewards' = Top.saved.pendingRewards
    /\ balance' = Top.saved.balance
    /\ wallet' = Top.saved.wallet
    /\ lastCall' = Call(Top.op, Top.who, Top.failure, 0, 0, "", 0)
    /\ UNCHANGED <<owner, now, blockNumber, txCount>>

----------------------------------------------------------------------------
(* Administration and deposits *)

SetPaused(who, status) ==
    /\ IF who # owner THEN Revert("setPaused", who, NotOwner)
        ELSE /\ isPaused' = status
             /\ Proceed
             /\ lastCall' = Call("setPaused", who, Ok, 0, 0, "", 0)
             /\ UNCHANGED <<locked, owner, creatorFees, gameBank, tierToAmount,
                            playerStats, pendingRewards, balance, wallet, now,
                            blockNumber, stack>>

\* a variant without the check of the maximum
UpdateTierAmount_Unchecked(who, tier, amount) ==
    /\ IF who # owner THEN Revert("updateTierAmount", who, NotOwner)
        ELSE /\ tierToAmount' = [tierToAmount EXCEPT ![tier] = amount]
             /\ Proceed
             /\ lastCall' = Call("updateTierAmount", who, Ok, tier, amount, "", 0)
             /\ UNCHANGED <<locked, owner, creatorFees, gameBank, isPaused,
                            playerStats, pendingRewards, balance, wallet, now,
                            blockNumber, stack>>

UpdateTierAmount(who, tier, amount) ==
    /\ IF who # owner THEN Revert("updateTierAmount", who, NotOwner)
        ELSE IF ~(amount <= MAX_BET_AMOUNT)
             THEN Revert("updateTierAmount", who, AmountExceedsMaximum)
        ELSE /\ tierToAmount' = [tierToAmount EXCEPT ![tier] = amount]
             /\ Proceed
             /\ lastCall' = Call("updateTierAmount", who, Ok, tier, amount, "", 0)
             /\ UNCHANGED <<locked, owner, creatorFees, gameBank, isPaused,
                            playerStats, pendingRewards, balance, wallet, now,
                            blockNumber, stack>>

\* a variant that counts the creator fees in the bank
SyncGameBank_IgnoresFees(who) ==
    /\ IF who # owner THEN Revert("syncGameBank", who, NotOwner)
        ELSE LET totalBalance == balance IN
             /\ gameBank' = totalBalance
             /\ Proceed
             /\ lastCall' = Call("syncGameBank", who, Ok, 0, 0, "", 0)
             /\ UNCHANGED <<locked, owner, creatorFees, isPaused, tierToAmount,
                            playerStats, pendingRewards, balance, wallet, now,
                            blockNumber, stack>>

SyncGameBank(who) ==
    /\ IF who # owner THEN Revert("syncGameBank", who, NotOwner)
        ELSE LET totalBalance == balance IN
             IF totalBalance < creatorFees
             THEN Revert("syncGameBank", who, ArithmeticPanic)
             ELSE /\ gameBank' = totalBalance - creatorFees
                  /\ Proceed
                  /\ lastCall' = Call("syncGameBank", who, Ok, 0, 0, "", 0)
                  /\ UNCHANGED <<locked, owner, creatorFees, isPaused, tierToAmount,
                                 playerStats, pendingRewards, balance, wallet, now,
                                 blockNumber, stack>>

\* a variant in which the depositor becomes the owner
Deposit_TakesOwnership(op, who, value) ==
    /\ wallet[who] >= value
    /\ Proceed
    /\ owner' = who
    /\ gameBank' = gameBank + value
    /\ balance' = balance + value
    /\ wallet' = [wallet EXCEPT ![who] = @ - value]
    /\ lastCall' = Call(op, who, Ok, 0, value, "", 0)
    /\ UNCHANGED <<locked, creatorFees, isPaused, tierToAmount,
                   playerStats, pendingRewards, now, blockNumber, stack>>

\* a variant with the empty body of the older receive()
Deposit_BalanceOnly(op, who, value) ==
    /\ wallet[who] >= value
    /\ Proceed
    /\ balance' = balance + value
    /\ wallet' = [wallet EXCEPT ![who] = @ - value]
    /\ lastCall' = Call(op, who, Ok, 0, value, "", 0)
    /\ UNCHANGED <<locked, owner, creatorFees, gameBank, isPaused,
                   tierToAmount, playerStats, pendingRewards, now,
                   blockNumber, stack>>

\* receive() and addFunds() have the same body
Deposit(op, who, value) ==
    /\ wallet[who] >= value
    /\ Proceed
    /\ gameBank' = gameBank + value
    /\ balance' = balance + value
    /\ wallet' = [wallet EXCEPT ![who] = @ - value]
    /\ lastCall' = Call(op, who, Ok, 0, value, "", 0)
    /\ UNCHANGED <<locked, owner, creatorFees, isPaused, tierToAmount,
                   playerStats, pendingRewards, now, blockNumber, stack>>

Receive(who, value) == Deposit("receive", who, value)
AddFunds(who, value) == Deposit("addFunds", who, value)

----------------------------------------------------------------------------
(* Deprecated functions: notPaused, then revert *)

\* the body of commitMove, revealMove and play
DeprecatedStub(op, who, value) ==
    /\ wallet[who] >= value
    /\ IF ~notPaused(isPaused) THEN Revert(op, who, GamePaused)
       ELSE Revert(op, who, Deprecated)

\* commitMove(bytes32, BetTier) external payable
CommitMove(who, tier, value) == DeprecatedStub("commitMove", who, value)

\* revealMove(Move, bytes32) external
RevealMove(who, move) == DeprecatedStub("revealMove", who, 0)

\* play(BetTier, Move) external payable
Play(who, tier, playerMove, value) == DeprecatedStub("play", who, value)

----------------------------------------------------------------------------
(* The chain *)

\* A new block is mined; no operation is in progress between blocks.
NextBlock(elapsed) ==
    /\ stack = <<>>
    /\ blockNumber < MaxBlocks
    /\ blockNumber' = blockNumber + 1
    /\ now' = now + elapsed
    /\ UNCHANGED <<ledgerVars, owner, txCount, stack, lastCall>>

\* The inputs explored
StakeValues(tier) ==
    {tierToAmount[tier] - 1, tierToAmount[tier], tierToAmount[tier] + 1} \cap Nat
UpdatedTiers == {TIER_1}
TierAmounts == {14, MAX_BET_AMOUNT + 1}
BlockTimes == {COOLDOWN - 1, COOLDOWN}

Next ==
    \/ /\ \E who \in Callers, playerMove \in Move, tier \in BetTier,
             contractMove \in Move :
             \E value \in StakeValues(tier) :
                PlayGame(who, playerMove, tier, value, contractMove)
       /\ UNCHANGED rl
    \/ /\ \E who \in Callers, index \in 0..MaxRewards : ClaimReward(who, index)
       /\ UNCHANGED rl
    \/ /\ \E who \in Callers : ClaimAllRewards(who)
       /\ UNCHANGED rl
    \/ /\ \E who \in Callers : WithdrawCreatorFees(who)
       /\ UNCHANGED rl
    \/ /\ \E who \in Callers : EmergencyWithdraw(who)
       /\ UNCHANGED rl
    \/ /\ TransferAccepted
       /\ UNCHANGED rl
    \/ /\ TransferRejected
       /\ UNCHANGED rl
    \/ /\ \E who \in Callers, status \in BOOLEAN : SetPaused(who, status)
       /\ UNCHANGED rl
    \/ /\ \E who \in Callers, tier \in UpdatedTiers, amount \in TierAmounts :
             UpdateTierAmount(who, tier, amount)
       /\ UNCHANGED rl
    \/ /\ \E who \in Callers : SyncGameBank(who)
       /\ UNCHANGED rl
    \/ /\ \E who \in Callers : Receive(who, DepositValue)
       /\ UNCHANGED rl
    \/ /\ \E who \in Callers : AddFunds(who, DepositValue)
       /\ UNCHANGED rl
    \/ /\ \E who \in Callers, tier \in BetTier :
             CommitMove(who, tier, tierToAmount[tier])
       /\ UNCHANGED rl
    \/ /\ \E who \in Callers, move \in Move : RevealMove(who, move)
       /\ UNCHANGED rl
    \/ /\ \E who \in Callers, tier \in BetTier, playerMove \in Move :
             Play(who, tier, playerMove, tierToAmount[tier])
       /\ UNCHANGED rl
    \/ /\ \E elapsed \in BlockTimes : NextBlock(elapsed)
       /\ UNCHANGED rl

Spec == Init /\ [][Next]_vars

----------------------------------------------------------------------------
TypeOK ==
    /\ locked \in BOOLEAN
    /\ isPaused \in BOOLEAN
    /\ owner \in Accounts
    /\ creatorFees \in Nat /\ gameBank \in Nat /\ balance \in Nat
    /\ \A a \in Accounts : wallet[a] \in Nat
    /\ Depth <= MaxDepth

----------------------------------------------------------------------------
(* Vocabulary of the properties *)

RECURSIVE SumAmounts(_, _)
\* the amounts of the entries of `rewards` at the positions in `idx`
SumAmounts(rewards, idx) ==
    IF idx = {} THEN 0
    ELSE LET i == CHOOSE j \in idx : TRUE
         IN rewards[i].amount + SumAmounts(rewards, idx \ {i})

UnclaimedOf(rewards) == {i \in DOMAIN rewards : ~rewards[i].claimed}

RECURSIVE Outstanding(_)
\* the unclaimed amounts of the players in `players`
Outstanding(players) ==
    IF players = {} THEN 0
    ELSE LET a == CHOOSE b \in players : TRUE
         IN SumAmounts(pendingRewards[a], UnclaimedOf(pendingRewards[a]))
            + Outstanding(players \ {a})

\* the entries of p that this step marks claimed
NewlyClaimed(p) ==
    {i \in DOMAIN pendingRewards[p] :
        /\ ~pendingRewards[p][i].claimed
        /\ i \in DOMAIN pendingRewards'[p]
        /\ pendingRewards'[p][i].claimed}

\* this step is a call of `op` that passed its checks
Passes(op) == txCount' = txCount + 1 /\ lastCall'.op = op

\* this step is a call of `op` that reverted before any transfer
FailsAtOnce(op) ==
    /\ lastCall'.op = op
    /\ lastCall' # lastCall
    /\ lastCall'.status \notin {Ok, InTransfer}
    /\ stack' = stack

\* this step is the wager of a player that resolved with the given outcome
Resolves(outcome) == Passes("playGame") /\ lastCall'.result = outcome

OthersKeepRewards(p) ==
    \A q \in Accounts \ {p} : pendingRewards'[q] = pendingRewards[q]

StateErrors == {GamePaused, WaitBeforePlaying}

----------------------------------------------------------------------------
(* C1: in every committed state the unclaimed reward amounts of all        *)
(* players plus creatorFees plus gameBank are at most the custodied        *)
(* balance.                                                                *)
C1_LiabilitiesCovered ==
    stack = <<>> => Outstanding(Accounts) + creatorFees + gameBank <= balance

(* C2: an entry that is claimed in a committed state is claimed in every   *)
(* later committed state, whatever operations (failed, reentrant, rolled   *)
(* back) come in between.                                                  *)
C2_ClaimedIsPermanent ==
    [][stack' = <<>> =>
         \A p \in Accounts :
            \A i \in DOMAIN Committed.pendingRewards[p] :
               Committed.pendingRewards[p][i].claimed =>
                  /\ i \in DOMAIN pendingRewards'[p]
                  /\ pendingRewards'[p][i].claimed]_vars

\* an entry was claimed, and a wager was resolved after that
C2_Witness ==
    /\ stack = <<>>
    /\ \E p \in Accounts : \E i \in DOMAIN pendingRewards[p] :
          /\ pendingRewards[p][i].claimed
          /\ Len(pendingRewards[p]) > i
    /\ lastCall.op = "playGame" /\ lastCall.status = Ok

(* C3: an entry becomes claimed only in a step that moves exactly its      *)
(* recorded amount from the contract to its owner; a claim's transfer pays *)
(* exactly the entries it marks, all of them unclaimed before, so no entry *)
(* is paid twice; a claim starts its transfer only when the balance covers *)
(* it, and a claimReward that ends with TransferFailed leaves the state as *)
(* it was when the claim was entered.                                      *)
C3_ClaimPaysExactlyOnce ==
    [][/\ \A p \in Accounts :
            NewlyClaimed(p) # {} =>
               /\ wallet'[p] - wallet[p]
                     = SumAmounts(pendingRewards[p], NewlyClaimed(p))
               /\ balance - balance'
                     = SumAmounts(pendingRewards[p], NewlyClaimed(p))
       /\ (Passes("claimReward") \/ Passes("claimAllRewards")) =>
            LET p == lastCall'.who IN
            /\ lastCall'.value = SumAmounts(pendingRewards[p], NewlyClaimed(p))
            /\ wallet'[p] - wallet[p] = lastCall'.value
            /\ balance >= lastCall'.value
            /\ balance' = balance - lastCall'.value
       /\ Passes("claimReward") =>
            /\ NewlyClaimed(lastCall'.who) = {lastCall'.arg + 1}
            /\ lastCall'.value
                  = pendingRewards[lastCall'.who][lastCall'.arg + 1].amount
       /\ FailsAtOnce("claimReward") => UNCHANGED ledgerVars
       /\ (/\ Len(stack') < Len(stack)
           /\ lastCall'.op = "claimReward"
           /\ lastCall'.status = TransferFailed) =>
            /\ ~pendingRewards'[Top.who][Top.arg + 1].claimed
            /\ Snapshot' = Top.saved]_vars

\* a claim was paid and completed
C3_Witness ==
    /\ stack = <<>>
    /\ lastCall.op = "claimReward" /\ lastCall.status = Ok
    /\ lastCall.value > 0
    /\ pendingRewards[lastCall.who][lastCall.arg + 1].claimed
    /\ pendingRewards[lastCall.who][lastCall.arg + 1].amount = lastCall.value

(* C4: a claimReward or claimAllRewards made by the recipient from within *)
(* the transfer of a claimReward fails with the reentrancy error and       *)
(* changes nothing, and the outer claim, once the recipient returns, ends  *)
(* successfully with its entry claimed and paid.                           *)
C4_NestedClaimIsRejected ==
    [][/\ (/\ stack # <<>>
           /\ Top.op = "claimReward"
           /\ lastCall'.op \in {"claimReward", "claimAllRewards"}
           /\ lastCall' # lastCall
           /\ Len(stack') >= Len(stack)) =>
            /\ lastCall'.status = ReentrancyError
            /\ UNCHANGED <<ledgerVars, stack>>
       /\ (/\ stack # <<>>
           /\ Top.op = "claimReward"
           /\ Len(stack') < Len(stack)
           /\ lastCall'.status = Ok) =>
            /\ pendingRewards'[Top.who][Top.arg + 1].claimed
            /\ wallet'[Top.who] = Top.saved.wallet[Top.who] + Top.amount]_vars

(* C5: while the outbound transfer of any operation is in progress the     *)
(* reentrancy mutex is held.                                               *)
C5_TransferHoldsMutex == stack # <<>> => locked

(* C6: a wager resolved as Win with stake S appends one unclaimed entry of *)
(* S + floor(92*S/100) to the caller's sequence, adds floor(3*S/100) to    *)
(* creatorFees and floor(7*S/100) to gameBank, adds 1 to the caller's      *)
(* totalWins and reports net gain floor(92*S/100); with S = 500 these are  *)
(* 960, 15, 35 and 460.                                                    *)
C6_WinSplit ==
    [][Resolves("Win") =>
         LET p == lastCall'.who
             S == tierToAmount[lastCall'.arg]
         IN
         /\ lastCall'.value = S
         /\ pendingRewards'[p] = Append(pendingRewards[p],
               [amount |-> S + (92 * S) \div 100, claimed |-> FALSE])
         /\ OthersKeepRewards(p)
         /\ creatorFees' = creatorFees + (3 * S) \div 100
         /\ gameBank' = gameBank + (7 * S) \div 100
         /\ playerStats'[p].totalWins = playerStats[p].totalWins + 1
         /\ lastCall'.netWin = (92 * S) \div 100
         /\ S = 500 =>
              /\ pendingRewards'[p][Len(pendingRewards'[p])].amount = 960
              /\ creatorFees' - creatorFees = 15
              /\ gameBank' - gameBank = 35
              /\ lastCall'.netWin = 460]_vars

\* a wager of 500 has just been won
C6_Witness ==
    /\ lastCall.op = "playGame" /\ lastCall.result = "Win"
    /\ lastCall.value = 500 /\ lastCall.netWin = 460
    /\ pendingRewards[lastCall.who] # <<>>
    /\ pendingRewards[lastCall.who][Len(pendingRewards[lastCall.who])]
          = [amount |-> 960, claimed |-> FALSE]

(* C7: a wager resolved as Draw with stake S appends one unclaimed entry   *)
(* of floor(98*S/100), adds floor(2*S/100) to creatorFees, leaves gameBank *)
(* and totalWins unchanged and reports net gain 0.                         *)
C7_DrawSplit ==
    [][Resolves("Draw") =>
         LET p == lastCall'.who
             S == tierToAmount[lastCall'.arg]
         IN
         /\ lastCall'.value = S
         /\ pendingRewards'[p] = Append(pendingRewards[p],
               [amount |-> (98 * S) \div 100, claimed |-> FALSE])
         /\ OthersKeepRewards(p)
         /\ creatorFees' = creatorFees + (2 * S) \div 100
         /\ gameBank' = gameBank
         /\ \A q \in Accounts :
               playerStats'[q].totalWins = playerStats[q].totalWins
         /\ lastCall'.netWin = 0]_vars

\* a wager whose 2% and 98% parts are both truncated has just been drawn
C7_Witness ==
    /\ lastCall.op = "playGame" /\ lastCall.result = "Draw"
    /\ lastCall.value = 14
    /\ pendingRewards[lastCall.who] # <<>>
    /\ pendingRewards[lastCall.who][Len(pendingRewards[lastCall.who])]
          = [amount |-> 13, claimed |-> FALSE]

(* C8: a wager resolved as Lose with stake S adds floor(3*S/100) to        *)
(* creatorFees and floor(97*S/100) to gameBank, appends no entry, leaves   *)
(* totalWins unchanged and reports net gain 0.                             *)
C8_LoseSplit ==
    [][Resolves("Lose") =>
         LET S == tierToAmount[lastCall'.arg] IN
         /\ lastCall'.value = S
         /\ creatorFees' = creatorFees + (3 * S) \div 100
         /\ gameBank' = gameBank + (97 * S) \div 100
         /\ pendingRewards' = pendingRewards
         /\ \A q \in Accounts :
               playerStats'[q].totalWins = playerStats[q].totalWins
         /\ lastCall'.netWin = 0]_vars

\* a wager has just been lost by a player who holds an earlier entry
C8_Witness ==
    /\ lastCall.op = "playGame" /\ lastCall.result = "Lose"
    /\ lastCall.status = Ok
    /\ gameBank > 0
    /\ pendingRewards[lastCall.who] # <<>>

\* what a resolved Win adds to the three ledgers together
WinTotal(p) ==
    pendingRewards'[p][Len(pendingRewards'[p])].amount
    + (creatorFees' - creatorFees) + (gameBank' - gameBank)

(* C9 as claimed: on a Win the entry added, the creatorFees increase and   *)
(* the gameBank increase sum to S * 102 / 100.                             *)
C9_WinTotalIs102Percent ==
    [][Resolves("Win") =>
         WinTotal(lastCall'.who) = (lastCall'.value * 102) \div 100]_vars

(* C9 as amended: on a Win they sum to S * 202 / 100 less what the three   *)
(* separate truncations drop: at most 2 units below floor(202*S/100),      *)
(* never above it, and exactly S * 202 / 100 when S is a multiple of 100.  *)
C9_WinTotalIs202Percent ==
    [][Resolves("Win") =>
         LET S == lastCall'.value
             total == WinTotal(lastCall'.who)
         IN
         /\ total <= (S * 202) \div 100
         /\ total >= (S * 202) \div 100 - 2
         /\ S % 100 = 0 => total = (S * 202) \div 100
         /\ total = S + (S * 92) \div 100 + (S * 3) \div 100
                      + (S * 7) \div 100]_vars

\* a wager of 14 has just been won: 26 + 0 + 0 is 2 below floor(28.28)
C9_Witness ==
    /\ lastCall.op = "playGame" /\ lastCall.result = "Win"
    /\ lastCall.value = 14
    /\ pendingRewards[lastCall.who] # <<>>
    /\ pendingRewards[lastCall.who][Len(pendingRewards[lastCall.who])].amount
          = 26

(* C10: a wager submitted by p as a transaction of its own at time t fails *)
(* with a StateError and changes nothing when                              *)
(* t < lastPlayTime[p] + COOLDOWN, and is not rejected by the cooldown     *)
(* check when t >= lastPlayTime[p] + COOLDOWN.                             *)
C10_CooldownGate ==
    [][(/\ stack = <<>>
        /\ lastCall'.op = "playGame"
        /\ Passes("playGame") \/ FailsAtOnce("playGame")) =>
         LET p == lastCall'.who IN
         /\ now < playerStats[p].lastPlayTime + COOLDOWN =>
               /\ lastCall'.status \in StateErrors
               /\ UNCHANGED ledgerVars
         /\ now >= playerStats[p].lastPlayTime + COOLDOWN =>
               lastCall'.status # WaitBeforePlaying]_vars

----------------------------------------------------------------------------
(* The stake check *)

\* the step is the wager of `who` on `tier` with `value` attached
IsWager(who, tier, value) ==
    /\ lastCall'.op = "playGame"
    /\ lastCall'.who = who
    /\ wallet[who] >= value
    /\ \E playerMove \in Move, contractMove \in Move :
          PlayGame(who, playerMove, tier, value, contractMove)

\* the failures that precede the stake check
BeforeStakeCheck == {ReentrancyError, GamePaused}

\* the step is a wager with a value other than the amount of its tier
IsWrongStakeWager ==
    \E who \in Accounts, tier \in BetTier :
      \E value \in StakeValues(tier) \ {tierToAmount[tier]} :
        IsWager(who, tier, value)

\* C11 (as stated): a wager whose attached value differs from the current
\* amount of its tier fails with "Incorrect ETH amount sent" and changes no
\* state.
C11_WrongStakeIsValueError ==
    [][lastCall'.op = "playGame" =>
        \/ /\ lastCall'.status = IncorrectAmount
           /\ UNCHANGED <<ledgerVars, stack, txCount>>
        \/ ~IsWrongStakeWager]_vars

\* C11 (amended): a wager whose attached value differs from the current
\* amount of its tier (over, under, by one unit, after the owner changed the
\* amount) always fails and changes no state; it fails with "Incorrect ETH
\* amount sent" unless the call is reentrant or the game is paused, which are
\* answered first; only the exact amount gets past the stake check.
C11_WrongStakeNeverPasses ==
    [][lastCall'.op = "playGame" =>
        \/ /\ UNCHANGED <<ledgerVars, stack, txCount>>
           /\ lastCall'.status \in BeforeStakeCheck \cup {IncorrectAmount}
           /\ (~locked /\ ~isPaused) => lastCall'.status = IncorrectAmount
        \/ ~IsWrongStakeWager]_vars

\* a wager is refused for its stake after the owner changed the amount
C11_Witness ==
    /\ lastCall.op = "playGame"
    /\ lastCall.status = IncorrectAmount
    /\ tierToAmount[TIER_1] # ConstructorTierToAmount[TIER_1]

----------------------------------------------------------------------------
(* Administration *)

\* the operations behind onlyOwner
AdminOnly ==
    {"withdrawCreatorFees", "setPaused", "updateTierAmount",
     "emergencyWithdraw", "syncGameBank"}

\* the step is a call of `who` to one of the operations behind onlyOwner
IsAdminCall(who) ==
    \/ WithdrawCreatorFees(who)
    \/ EmergencyWithdraw(who)
    \/ \E status \in BOOLEAN : SetPaused(who, status)
    \/ \E tier \in UpdatedTiers, amount \in TierAmounts :
          UpdateTierAmount(who, tier, amount)
    \/ SyncGameBank(who)

\* C12: a call to an owner-only operation (withdrawCreatorFees, setPaused,
\* updateTierAmount, emergencyWithdraw, syncGameBank) by anyone but the owner,
\* at top level or inside a transfer, fails with "Not owner" and leaves the
\* ledger and the balance as they were.
C12_NonOwnerGetsNotOwner ==
    [][\A who \in Accounts \ {owner} :
          (lastCall'.op \in AdminOnly /\ lastCall'.who = who
             /\ IsAdminCall(who)) =>
                /\ lastCall'.status = NotOwner
                /\ UNCHANGED <<ledgerVars, stack, txCount>>]_vars

\* C13: emergencyWithdraw succeeds only while the game is paused: called by
\* the owner on a game that is not paused it fails and moves no value; called
\* on a paused game it sends the whole balance of the contract to the owner
\* and leaves a balance of 0.
C13_EmergencyWithdrawNeedsPause ==
    [][(lastCall'.op = "emergencyWithdraw" /\ EmergencyWithdraw(owner)) =>
          IF isPaused
          THEN /\ lastCall'.status = InTransfer
               /\ lastCall'.value = balance
               /\ wallet'[owner] = wallet[owner] + balance
               /\ balance' = 0
          ELSE /\ lastCall'.status \notin {Ok, InTransfer}
               /\ UNCHANGED <<balance, wallet, stack>>]_vars

----------------------------------------------------------------------------
(* Claims that are refused *)

\* the step is the call claimReward(index) of `who`
IsClaim(who, index) ==
    /\ lastCall'.op = "claimReward"
    /\ lastCall'.who = who
    /\ ClaimReward(who, index)

\* the call is refused and nothing changes
Refused(status) ==
    /\ lastCall'.status = status
    /\ UNCHANGED <<ledgerVars, stack, txCount>>

\* C14: claimReward on an entry that is already claimed fails with
\* RewardAlreadyClaimed, pays nothing and changes nothing, for every player
\* and index and whatever was done since the entry was claimed (a call made
\* while a guarded operation is in progress is stopped by the guard first
\* and changes nothing either).
C14_SecondClaimIsRefused ==
    [][lastCall'.op = "claimReward" =>
        \A who \in {lastCall'.who}, index \in 0..MaxRewards :
          (/\ index < Len(pendingRewards[who])
           /\ pendingRewards[who][index + 1].claimed
           /\ IsClaim(who, index)) =>
              IF locked THEN Refused(ReentrancyError)
              ELSE Refused(RewardAlreadyClaimed)]_vars

\* an entry was claimed, something else was done, and a second claim of it
\* was refused
C14_Witness ==
    /\ lastCall.op = "claimReward"
    /\ lastCall.status = RewardAlreadyClaimed
    /\ stack = <<>>
    /\ txCount > 2

\* C15: claimReward(index) with index at or beyond the number of entries of
\* the caller fails with InvalidRewardIndex and changes nothing, claimReward(0)
\* of a player without entries included; the entries of other players do not
\* count (a call made while a guarded operation is in progress is stopped by
\* the guard first and changes nothing either).
C15_IndexBeyondOwnEntries ==
    [][lastCall'.op = "claimReward" =>
        \A who \in {lastCall'.who}, index \in 0..MaxRewards :
          (index >= Len(pendingRewards[who]) /\ IsClaim(who, index)) =>
              IF locked THEN Refused(ReentrancyError)
              ELSE Refused(InvalidRewardIndex)]_vars

\* a player without entries is refused while another player has entries
C15_Witness ==
    \E p \in Accounts, q \in Accounts :
        /\ lastCall.op = "claimReward"
        /\ lastCall.who = p
        /\ lastCall.status = InvalidRewardIndex
        /\ pendingRewards[p] = <<>>
        /\ pendingRewards[q] # <<>>

----------------------------------------------------------------------------
(* claimAllRewards and withdrawCreatorFees *)

AllClaimed(rewards) == \A i \in DOMAIN rewards : rewards[i].claimed

SameAmounts(before, after) ==
    /\ Len(after) = Len(before)
    /\ \A i \in DOMAIN before : after[i].amount = before[i].amount

\* this step is the normal return of the transfer made by `op`
Completes(op) ==
    /\ Len(stack') < Len(stack)
    /\ lastCall'.op = op
    /\ lastCall'.status = Ok

\* this step is the failure of the transfer made by `op`
TransferFails(op) ==
    /\ Len(stack') < Len(stack)
    /\ lastCall'.op = op
    /\ lastCall'.status \notin {Ok, InTransfer}

C17_WithdrawPaysAccruedFees ==
    [][/\ Passes("withdrawCreatorFees") =>
            /\ lastCall'.who = owner
            /\ lastCall'.value = creatorFees
            /\ stack'[Len(stack')].to = owner
            /\ wallet'[owner] = wallet[owner] + creatorFees
            /\ balance' = balance - creatorFees
            /\ creatorFees' = 0
            /\ UNCHANGED <<gameBank, pendingRewards>>
       /\ Completes("withdrawCreatorFees") =>
            /\ lastCall'.value = Top.amount
            /\ creatorFees' = 0
            /\ UNCHANGED <<creatorFees, gameBank, pendingRewards, balance,
                           wallet>>
       /\ TransferFails("withdrawCreatorFees") =>
            /\ lastCall'.status = TransferFailed
            /\ creatorFees' = Top.saved.creatorFees
            /\ creatorFees' = Top.amount
            /\ Snapshot' = Top.saved
       /\ (FailsAtOnce("withdrawCreatorFees")
             /\ lastCall'.status = TransferFailed) =>
            /\ balance < creatorFees
            /\ UNCHANGED ledgerVars]_vars

\* the owner was paid fees accrued by a wager
C17_Witness ==
    /\ stack = <<>>
    /\ lastCall.op = "withdrawCreatorFees"
    /\ lastCall.status = Ok
    /\ lastCall.value > 0
    /\ creatorFees = 0

----------------------------------------------------------------------------
(* Pause *)

\* the operations that do not look at isPaused
PauseFree ==
    {"claimReward", "claimAllRewards", "withdrawCreatorFees", "receive",
     "addFunds", "updateTierAmount", "syncGameBank", "setPaused"}

\* the step is a wager
IsAnyWager ==
    \E who \in Accounts, tier \in BetTier :
      \E value \in StakeValues(tier) : IsWager(who, tier, value)

\* the step is setPaused(status) called by `who`
IsSetPaused(who, status) ==
    /\ lastCall'.op = "setPaused"
    /\ lastCall'.who = who
    /\ SetPaused(who, status)

\* What decides whether a call to an operation of PauseFree passes: the
\* reentrancy guard, the caller, the entries and the balance, never isPaused.
PassesWhateverThePause ==
    /\ lastCall'.op = "claimReward" =>
          \A index \in 0..MaxRewards :
            LET who == lastCall'.who
                rewards == pendingRewards[who]
            IN
            IsClaim(who, index) =>
               (lastCall'.status = InTransfer
                  <=> /\ ~locked
                      /\ index < Len(rewards)
                      /\ ~rewards[index + 1].claimed
                      /\ balance >= rewards[index + 1].amount)
    /\ (lastCall'.op = "claimAllRewards"
          /\ ClaimAllRewards(lastCall'.who)) =>
          LET rewards == pendingRewards[lastCall'.who]
              due == SumAmounts(rewards, UnclaimedOf(rewards))
          IN lastCall'.status = InTransfer <=> (due > 0 /\ balance >= due)
    /\ (lastCall'.op = "withdrawCreatorFees"
          /\ WithdrawCreatorFees(lastCall'.who)) =>
          (lastCall'.status = InTransfer
             <=> (~locked /\ lastCall'.who = owner /\ balance >= creatorFees))
    /\ lastCall'.op = "updateTierAmount" =>
          \A tier \in UpdatedTiers, amount \in TierAmounts :
            (lastCall' # lastCall
               /\ UpdateTierAmount(lastCall'.who, tier, amount)) =>
               (lastCall'.status = Ok
                  <=> (lastCall'.who = owner /\ amount <= MAX_BET_AMOUNT))
    /\ (lastCall'.op = "syncGameBank" /\ lastCall' # lastCall
          /\ SyncGameBank(lastCall'.who)) =>
          (lastCall'.status = Ok
             <=> (lastCall'.who = owner /\ balance >= creatorFees))

\* C18: while the game is paused every wager fails with "Game is paused" and
\* changes nothing (a wager made while a guarded operation is in progress is
\* stopped by the guard first); playGame is the only operation the pause
\* stops: claimReward, claimAllRewards, withdrawCreatorFees, the deposits,
\* updateTierAmount, syncGameBank and setPaused are never refused for the
\* pause, paused or not, pass on conditions that do not involve the flag,
\* and leave the flag alone (setPaused sets it to its argument); once the
\* flag is false again wagers are no longer refused for the pause.
C18_PauseStopsWagersOnly ==
    [][/\ (lastCall'.op = "playGame" /\ isPaused) =>
            \/ IF locked THEN Refused(ReentrancyError)
               ELSE Refused(GamePaused)
            \/ ~IsAnyWager
       /\ (lastCall'.op = "playGame" /\ ~isPaused) =>
            \/ lastCall'.status # GamePaused
            \/ ~IsAnyWager
       /\ (lastCall'.op \in PauseFree /\ lastCall' # lastCall) =>
            /\ lastCall'.status # GamePaused
            /\ lastCall'.op # "setPaused" =>
                 (isPaused' = isPaused \/ TransferFails(lastCall'.op))
       /\ (lastCall'.op \in {"receive", "addFunds"} /\ lastCall' # lastCall) =>
            lastCall'.status = Ok
       /\ PassesWhateverThePause
       /\ \A status \in BOOLEAN :
            IsSetPaused(owner, status) =>
               /\ lastCall'.status = Ok
               /\ isPaused' = status]_vars

\* a wager was refused on a paused game
C18_Witness ==
    /\ stack = <<>>
    /\ isPaused
    /\ lastCall.op = "playGame"
    /\ lastCall.status = GamePaused

----------------------------------------------------------------------------
(* Deprecated functions *)

DeprecatedOps == {"commitMove", "revealMove", "play"}

\* C19: commitMove, revealMove and play fail with the deprecation message in
\* every state, paused or not, for every caller and input, change nothing and
\* keep no attached value.
C19_StubsSignalDeprecation ==
    [][(lastCall'.op \in DeprecatedOps /\ lastCall' # lastCall) =>
          Refused(Deprecated)]_vars

\* C20: play(tier, move) with a value equal to the amount of the tier, sent
\* by a player whose cooldown has elapsed on a game that is not paused,
\* succeeds and reports the game played by that player.
C20_PlayResolvesAWager ==
    [][lastCall'.op = "play" =>
        \A who \in {lastCall'.who}, tier \in BetTier, playerMove \in Move :
          (/\ ~isPaused
           /\ CooldownElapsed(now, playerStats[who].lastPlayTime)
           /\ lastCall' # lastCall
           /\ Play(who, tier, playerMove, tierToAmount[tier])) =>
              /\ lastCall'.status = Ok
              /\ lastCall'.who = who
              /\ lastCall'.result \in {"Win", "Draw", "Lose"}]_vars

----------------------------------------------------------------------------
(* Order of the checks of a wager *)

\* C21: the checks of a wager run in the order pause, cooldown, stake: a
\* wager made inside the cooldown window with a wrong stake fails with "Wait
\* before playing again", and a wager made on a paused game fails with "Game
\* is paused" whatever its stake and cooldown.
C21_PauseThenCooldownThenStake ==
    [][(lastCall'.op = "playGame" /\ ~locked) =>
        /\ isPaused =>
             \/ Refused(GamePaused)
             \/ ~IsAnyWager
        /\ (/\ ~isPaused
            /\ ~CooldownElapsed(now, playerStats[lastCall'.who].lastPlayTime))
             => \/ Refused(WaitBeforePlaying)
                \/ ~IsWrongStakeWager]_vars

----------------------------------------------------------------------------
(* Tier amounts *)

TierAmountsBounded == \A tier \in BetTier : tierToAmount[tier] <= MAX_BET_AMOUNT

\* C22: updateTierAmount(tier, amount) called by the owner sets the amount of
\* the tier when amount <= MAX_BET_AMOUNT and fails with "Amount exceeds
\* maximum", leaving every amount as it was, when amount > MAX_BET_AMOUNT; so
\* every tier amount is at most MAX_BET_AMOUNT in every reachable state.
C22_TierAmountsStayBelowMaximum ==
    [][/\ TierAmountsBounded
       /\ TierAmountsBounded'
       /\ lastCall'.op = "updateTierAmount" =>
            \A tier \in UpdatedTiers, amount \in TierAmounts :
              (/\ lastCall'.who = owner
               /\ lastCall' # lastCall
               /\ UpdateTierAmount(owner, tier, amount)) =>
                  IF amount <= MAX_BET_AMOUNT
                  THEN /\ lastCall'.status = Ok
                       /\ tierToAmount' = [tierToAmount EXCEPT ![tier] = amount]
                  ELSE Refused(AmountExceedsMaximum)]_vars

\* an amount above the maximum was refused after an amount was set
C22_Witness ==
    /\ lastCall.op = "updateTierAmount"
    /\ lastCall.status = AmountExceedsMaximum
    /\ tierToAmount # ConstructorTierToAmount
    /\ TierAmountsBounded

----------------------------------------------------------------------------
(* syncGameBank *)

\* C23: syncGameBank called by the owner succeeds exactly when the balance of
\* the contract is at least creatorFees; it then sets gameBank to the balance
\* minus creatorFees, so that gameBank + creatorFees equals the balance, and
\* leaves creatorFees, the reward entries, the player statistics and the
\* balance as they were; when the balance is below creatorFees it fails and
\* gameBank keeps its value.
C23_SyncReconcilesGameBank ==
    [][(/\ lastCall'.op = "syncGameBank"
        /\ lastCall'.who = owner
        /\ lastCall' # lastCall
        /\ SyncGameBank(owner)) =>
          IF balance >= creatorFees
          THEN /\ lastCall'.status = Ok
               /\ gameBank' = balance - creatorFees
               /\ gameBank' + creatorFees' = balance'
               /\ UNCHANGED <<creatorFees, pendingRewards, playerStats,
                              balance, wallet, locked, isPaused, tierToAmount,
                              stack>>
          ELSE /\ lastCall'.status \notin {Ok, InTransfer}
               /\ UNCHANGED <<ledgerVars, stack, txCount>>]_vars

\* the bank was reconciled while creator fees were owed
C23_Witness ==
    /\ stack = <<>>
    /\ lastCall.op = "syncGameBank"
    /\ lastCall.status = Ok
    /\ creatorFees > 0
    /\ gameBank > 0
    /\ gameBank + creatorFees = balance

----------------------------------------------------------------------------
(* The reentrancy mutex *)

GuardedOps == {"playGame", "claimReward", "withdrawCreatorFees"}

\* C24: locked is false whenever no operation is in progress, whatever way
\* the last guarded operation ended (committed, or failed with
\* InvalidRewardIndex, RewardAlreadyClaimed, TransferFailed or "Not owner"),
\* and it is true only while a guarded operation is executing.
C24_MutexFreeBetweenOperations ==
    /\ stack = <<>> => ~locked
    /\ locked => \E i \in DOMAIN stack : stack[i].guarded

\* a guarded operation failed on its transfer and left the mutex free
C24_Witness ==
    /\ stack = <<>>
    /\ lastCall.op \in GuardedOps
    /\ lastCall.status = TransferFailed
    /\ ~locked

----------------------------------------------------------------------------
(* Player statistics *)

\* this step undoes an operation whose transfer failed
RollsBack ==
    Len(stack') < Len(stack) /\ lastCall'.status \notin {Ok, InTransfer}

\* C25: the lastPlayTime of a player never decreases from one committed state
\* to the next; it changes only when a wager of that player resolves, to the
\* timestamp of the resolution (or back, when the transaction the wager was
\* part of is reverted); failed wagers, claims and owner operations leave it
\* as it was.
C25_LastPlayTimeNeverDecreases ==
    [][/\ stack' = <<>> =>
            \A p \in Accounts :
               Committed.playerStats[p].lastPlayTime
                  <= playerStats'[p].lastPlayTime
       /\ \A p \in Accounts :
            playerStats'[p].lastPlayTime # playerStats[p].lastPlayTime =>
               \/ /\ Passes("playGame")
                  /\ lastCall'.who = p
                  /\ lastCall'.status = Ok
                  /\ playerStats'[p].lastPlayTime = now
                  /\ playerStats'[p].lastPlayTime > playerStats[p].lastPlayTime
               \/ /\ RollsBack
                  /\ playerStats'[p].lastPlayTime
                        = Top.saved.playerStats[p].lastPlayTime
       /\ Passes("playGame") =>
            playerStats'[lastCall'.who].lastPlayTime = now]_vars

\* a player resolved a second wager once the cooldown had elapsed
C25_Witness ==
    \E p \in Accounts :
        /\ stack = <<>>
        /\ Len(pendingRewards[p]) = 2
        /\ playerStats[p].lastPlayTime >= 2 * COOLDOWN

----------------------------------------------------------------------------
(* The outcome of a wager *)

\* the pairs (player move, contract move) that the player wins
WinningPairs == {<<Rock, Scissors>>, <<Paper, Rock>>, <<Scissors, Paper>>}

\* C26: for each of the nine pairs (player move, contract move) a resolved
\* wager reports exactly one of Win, Draw and Lose: Win for (Rock, Scissors),
\* (Paper, Rock) and (Scissors, Paper), Draw when the moves are equal, Lose
\* otherwise; with the two moves swapped a Win is a Lose and a Lose is a Win.
C26_StandardRelation ==
    [][Passes("playGame") =>
        \A playerMove \in Move, contractMove \in Move :
          PlayGame(lastCall'.who, playerMove, lastCall'.arg, lastCall'.value,
                   contractMove) =>
            /\ lastCall'.result \in {"Win", "Draw", "Lose"}
            /\ lastCall'.result = "Win"
                 <=> <<playerMove, contractMove>> \in WinningPairs
            /\ lastCall'.result = "Draw" <=> playerMove = contractMove
            /\ lastCall'.result = "Lose"
                 <=> /\ playerMove # contractMove
                     /\ <<playerMove, contractMove>> \notin WinningPairs
            /\ lastCall'.result = "Win"
                 <=> Outcome(contractMove, playerMove) = "Lose"
            /\ lastCall'.result = "Lose"
                 <=> Outcome(contractMove, playerMove) = "Win"]_vars

\* one player has won a wager and the other has just lost one
C26_Witness ==
    \E p \in Accounts :
        /\ playerStats[p].totalWins = 1
        /\ lastCall.op = "playGame"
        /\ lastCall.who # p
        /\ lastCall.result = "Lose"

----------------------------------------------------------------------------
(* The reward entries *)

\* `after` has every entry of `before`, with the same amount, at the same
\* place
Extends(before, after) ==
    /\ Len(after) >= Len(before)
    /\ \A i \in DOMAIN before : after[i].amount = before[i].amount

\* C27: the reward entries of a player are append-only: from one committed
\* state to the next the length never decreases and no amount changes; an
\* entry is appended only by a wager of that player that resolves as Win or
\* Draw, one unclaimed entry for each such wager; no claim, owner operation
\* or emergency withdrawal removes or rewrites an entry (only the revert of a
\* transaction takes back the entries appended inside it).
C27_RewardsAreAppendOnly ==
    [][/\ stack' = <<>> =>
            \A p \in Accounts :
               Extends(Committed.pendingRewards[p], pendingRewards'[p])
       /\ ~RollsBack =>
            \A p \in Accounts :
               /\ Extends(pendingRewards[p], pendingRewards'[p])
               /\ Len(pendingRewards'[p]) # Len(pendingRewards[p]) =>
                    /\ Passes("playGame")
                    /\ lastCall'.who = p
                    /\ lastCall'.result \in {"Win", "Draw"}
       /\ Passes("playGame") =>
            LET p == lastCall'.who IN
            IF lastCall'.result \in {"Win", "Draw"}
            THEN /\ Len(pendingRewards'[p]) = Len(pendingRewards[p]) + 1
                 /\ ~pendingRewards'[p][Len(pendingRewards'[p])].claimed
                 /\ SubSeq(pendingRewards'[p], 1, Len(pendingRewards[p]))
                       = pendingRewards[p]
                 /\ OthersKeepRewards(p)
            ELSE pendingRewards' = pendingRewards
       /\ RollsBack => pendingRewards' = Top.saved.pendingRewards]_vars

\* a player claimed an entry, then a wager appended a second one
C27_Witness ==
    \E p \in Accounts :
        /\ stack = <<>>
        /\ lastCall.op = "playGame"
        /\ lastCall.who = p
        /\ Len(pendingRewards[p]) = 2
        /\ pendingRewards[p][1].claimed
        /\ ~pendingRewards[p][2].claimed

\* the amounts a tier can hold
PossibleStakes ==
    {ConstructorTierToAmount[tier] : tier \in BetTier}
       \cup {amount \in TierAmounts : amount <= MAX_BET_AMOUNT}

\* the entries of `rewards` appended by a Win (no stake of PossibleStakes
\* gives a Draw the amount of a Win)
WinEntries(rewards) ==
    {i \in DOMAIN rewards :
        rewards[i].amount \in {WinPayout(stake) : stake \in PossibleStakes}}

WinsAreCounted ==
    \A p \in Accounts :
        playerStats[p].totalWins = Cardinality(WinEntries(pendingRewards[p]))

\* C28: the totalWins of a player never decreases from one committed state to
\* the next; it grows by exactly 1 on each wager of that player that resolves
\* as Win and is left as it was by Draw, Lose, failed wagers, claims and
\* owner operations (only the revert of a transaction takes back the wins
\* counted inside it); so it always equals the number of resolved Wins of the
\* player.
C28_TotalWinsCountsWins ==
    [][/\ WinsAreCounted
       /\ WinsAreCounted'
       /\ stack' = <<>> =>
            \A p \in Accounts :
               Committed.playerStats[p].totalWins <= playerStats'[p].totalWins
       /\ ~RollsBack =>
            \A p \in Accounts :
               playerStats'[p].totalWins
                  = IF /\ Passes("playGame")
                       /\ lastCall'.who = p
                       /\ lastCall'.result = "Win"
                    THEN playerStats[p].totalWins + 1
                    ELSE playerStats[p].totalWins
       /\ RollsBack => playerStats' = Top.saved.playerStats]_vars

\* a Win of one player is counted, the Draw of the other is not
C28_Witness ==
    \E p \in Accounts :
        /\ playerStats[p].totalWins = 1
        /\ lastCall.op = "playGame"
        /\ lastCall.who # p
        /\ lastCall.result = "Draw"
        /\ playerStats[lastCall.who].totalWins = 0

----------------------------------------------------------------------------
(* Value moved by a wager *)

\* C29: a wager that resolves makes no outbound transfer: whatever the
\* outcome, the balance of the contract grows by exactly the attached stake,
\* which leaves the player, and no account receives value.
C29_WagerMovesOnlyTheStake ==
    [][Passes("playGame") =>
         LET p == lastCall'.who
             stake == lastCall'.value
         IN
         /\ lastCall'.result \in {"Win", "Draw", "Lose"}
         /\ stake = tierToAmount[lastCall'.arg]
         /\ balance' = balance + stake
         /\ wallet'[p] = wallet[p] - stake
         /\ \A q \in Accounts : wallet'[q] <= wallet[q]
         /\ stack' = stack]_vars

\* the first wager resolved: its stake is all the contract holds
C29_Witness ==
    /\ lastCall.op = "playGame"
    /\ lastCall.status = Ok
    /\ balance = lastCall.value
    /\ balance > 0
    /\ \A q \in Accounts \ {lastCall.who} : wallet[q] = InitialFunds
    /\ wallet[lastCall.who] = InitialFunds - lastCall.value

----------------------------------------------------------------------------
(* Deployment *)

\* no call has been made since the constructor ran
JustDeployed == lastCall.op = "constructor"

\* C30: right after deployment the owner is the deploying account, the five
\* tiers hold 0.005, 0.01, 0.025, 0.05 and 0.1 ether (500, 1000, 2500, 5000
\* and 10000 units of 0.00001 ether), the game is not paused, creatorFees and
\* gameBank are 0, and every player has no reward entry, lastPlayTime 0 and
\* totalWins 0.
C30_StateAfterDeployment ==
    JustDeployed =>
        /\ owner = Deployer
        /\ lastCall.who = owner
        /\ tierToAmount[TIER_1] = 500
        /\ tierToAmount[TIER_2] = 1000
        /\ tierToAmount[TIER_3] = 2500
        /\ tierToAmount[TIER_4] = 5000
        /\ tierToAmount[TIER_5] = 10000
        /\ DOMAIN tierToAmount = BetTier
        /\ ~isPaused
        /\ ~locked
        /\ creatorFees = 0
        /\ gameBank = 0
        /\ \A p \in Accounts :
              /\ pendingRewards[p] = <<>>
              /\ playerStats[p].lastPlayTime = 0
              /\ playerStats[p].totalWins = 0

\* a block has been mined since the deployment and nobody has called yet
C30_Witness ==
    /\ JustDeployed
    /\ txCount = 0
    /\ blockNumber > 0
    /\ stack = <<>>

----------------------------------------------------------------------------
(* Effects before interaction *)

\* the frames of `op` suspended in their transfer
Suspended(op) == {i \in DOMAIN stack : stack[i].op = op}

\* C31: in every state in which the transfer of a claimReward is in progress
\* (the states the recipient's callback can observe or act from) the entry
\* being paid is already marked claimed, and in every state in which the
\* transfer of withdrawCreatorFees is in progress creatorFees is already 0.
C31_EffectsBeforeInteraction ==
    /\ \A i \in Suspended("claimReward") :
          /\ stack[i].arg + 1 \in DOMAIN pendingRewards[stack[i].who]
          /\ pendingRewards[stack[i].who][stack[i].arg + 1].claimed
    /\ Suspended("withdrawCreatorFees") # {} => creatorFees = 0

\* the recipient of a claim's transfer has tried, from its callback, to claim
\* again
C31_Witness ==
    /\ stack # <<>>
    /\ Top.op = "claimReward"
    /\ Top.amount > 0
    /\ lastCall.op = "claimReward"
    /\ lastCall.who = Top.to
    /\ lastCall.status = ReentrancyError
    /\ pendingRewards[Top.who][Top.arg + 1].claimed

----------------------------------------------------------------------------
(* emergencyWithdraw and what it leaves behind *)

\* the step is a claimReward of an unclaimed entry that the balance does not
\* cover
IsUncoveredClaim ==
    \E who \in {lastCall'.who}, index \in 0..MaxRewards :
        /\ index < Len(pendingRewards[who])
        /\ ~pendingRewards[who][index + 1].claimed
        /\ pendingRewards[who][index + 1].amount > balance
        /\ IsClaim(who, index)

\* the step is a withdrawCreatorFees of the owner that the balance does not
\* cover
IsUncoveredWithdrawal ==
    /\ lastCall'.who = owner
    /\ creatorFees > balance
    /\ WithdrawCreatorFees(owner)

\* the call fails on its transfer (or, inside a guarded operation, on the
\* guard) and nothing changes
FailsForLackOfBalance ==
    IF locked THEN Refused(ReentrancyError) ELSE Refused(TransferFailed)

\* C32: emergencyWithdraw moves the whole balance to the owner and changes
\* nothing else: creatorFees, gameBank, every reward entry, the player stats,
\* the tier amounts and isPaused are as before, when its transfer starts and
\* when it completes.  As long as the balance does not cover it (as after an
\* emergencyWithdraw, until value comes in again) a claimReward of an
\* unclaimed entry and a withdrawCreatorFees of the owner fail with
\* TransferFailed and change nothing, the entry staying unclaimed (inside a
\* guarded operation the guard answers first).
C32_EmergencyWithdrawTouchesOnlyBalance ==
    [][/\ Passes("emergencyWithdraw") =>
            /\ lastCall'.who = owner
            /\ balance' = 0
            /\ wallet'[owner] = wallet[owner] + balance
            /\ \A a \in Accounts \ {owner} : wallet'[a] = wallet[a]
            /\ UNCHANGED <<creatorFees, gameBank, pendingRewards, playerStats,
                           tierToAmount, isPaused, locked, owner>>
       /\ Completes("emergencyWithdraw") => UNCHANGED ledgerVars
       /\ lastCall'.op = "claimReward" =>
            (FailsForLackOfBalance \/ ~IsUncoveredClaim)
       /\ lastCall'.op = "withdrawCreatorFees" =>
            (FailsForLackOfBalance \/ ~IsUncoveredWithdrawal)]_vars

\* after an emergencyWithdraw emptied the contract, a player holding an
\* unclaimed entry was refused its payment
C32_Witness ==
    /\ stack = <<>>
    /\ balance = 0
    /\ gameBank + creatorFees > 0
    /\ lastCall.op = "claimReward"
    /\ lastCall.status = TransferFailed
    /\ \E i \in UnclaimedOf(pendingRewards[lastCall.who]) :
          pendingRewards[lastCall.who][i].amount > 0

----------------------------------------------------------------------------
(* The pool and the payments *)

\* this step starts or completes the payment of a claim
PaysAClaim ==
    \/ Passes("claimReward") \/ Passes("claimAllRewards")
    \/ Completes("claimReward") \/ Completes("claimAllRewards")

\* C33: claimReward and claimAllRewards leave creatorFees and gameBank as
\* they are, when the payment starts and when it completes; gameBank is
\* lowered by no step other than a syncGameBank, the undoing of an operation
\* whose transfer failed apart, which puts gameBank back to what it was when
\* that operation was entered (the last committed value when the operation
\* was a transaction of its own).
C33_ClaimsNeverDebitThePool ==
    [][/\ PaysAClaim => UNCHANGED <<creatorFees, gameBank>>
       /\ gameBank' < gameBank => (Passes("syncGameBank") \/ RollsBack)
       /\ RollsBack => gameBank' = Top.saved.gameBank
       /\ (RollsBack /\ stack' = <<>>) => gameBank' = Committed.gameBank]_vars

\* a reward was paid in full while the pool and the fees were not empty
C33_Witness ==
    /\ stack = <<>>
    /\ lastCall.op = "claimReward"
    /\ lastCall.status = Ok
    /\ lastCall.value > 0
    /\ gameBank > 0
    /\ creatorFees > 0

----------------------------------------------------------------------------
(* When a claim succeeds *)

\* the step is a claimReward of an unclaimed entry that the balance covers,
\* made while no guarded operation is in progress
IsCoveredClaim ==
    \E who \in {lastCall'.who}, index \in 0..MaxRewards :
        /\ ~locked
        /\ index < Len(pendingRewards[who])
        /\ ~pendingRewards[who][index + 1].claimed
        /\ pendingRewards[who][index + 1].amount <= balance
        /\ IsClaim(who, index)

\* the claim passes its checks and its transfer is started
StartsItsTransfer ==
    /\ lastCall'.status = InTransfer
    /\ Len(stack') = Len(stack) + 1
    /\ pendingRewards'[lastCall'.who][lastCall'.arg + 1].claimed
    /\ lastCall'.value = pendingRewards[lastCall'.who][lastCall'.arg + 1].amount
    /\ wallet'[lastCall'.who] = wallet[lastCall'.who] + lastCall'.value

\* the wager `who` can submit on `tier` now that would be resolved
WagerStands(who, tier) ==
    /\ ~locked
    /\ notPaused(isPaused)
    /\ CooldownElapsed(now, playerStats[who].lastPlayTime)
    /\ wallet[who] >= tierToAmount[tier]
    /\ Len(pendingRewards[who]) < MaxRewards
    /\ txCount < MaxTx

\* a wager can be resolved as a Win whatever the balance is
WinNeedsNoBalance ==
    \A who \in Callers, tier \in BetTier :
        WagerStands(who, tier) =>
            ENABLED (/\ PlayGame(who, Rock, tier, tierToAmount[tier], Scissors)
                     /\ lastCall'.result = "Win"
                     /\ Len(pendingRewards'[who]) = Len(pendingRewards[who]) + 1)

\* C34: a claimReward(index) of player p on an unclaimed entry, made while no
\* guarded operation is in progress and with a balance of at least the
\* amount of the entry, passes every check and starts its transfer, whatever
\* isPaused, the cooldown of p, creatorFees, gameBank and the entries of the
\* other players are; when p accepts the transfer the claim ends
\* successfully with the entry claimed.  A wager can be resolved as a Win
\* whatever the balance is, below the payout included; a claim of an entry
\* that the balance does not cover fails and leaves the entry unclaimed.
C34_CoveredClaimSucceeds ==
    [][/\ WinNeedsNoBalance
       /\ lastCall'.op = "claimReward" =>
            /\ StartsItsTransfer \/ ~IsCoveredClaim
            /\ FailsForLackOfBalance \/ ~IsUncoveredClaim
       /\ (stack # <<>> /\ Top.op = "claimReward" /\ TransferAccepted) =>
            /\ lastCall'.status = Ok
            /\ pendingRewards'[Top.who][Top.arg + 1].claimed
            /\ wallet'[Top.who] = wallet[Top.who]
            /\ ~locked']_vars

\* a player was paid an entry while the game was paused and the player's
\* cooldown had not elapsed
C34_Witness ==
    /\ stack = <<>>
    /\ lastCall.op = "claimReward"
    /\ lastCall.status = Ok
    /\ lastCall.value > 0
    /\ isPaused
    /\ ~CooldownElapsed(now, playerStats[lastCall.who].lastPlayTime)
    /\ creatorFees > 0

----------------------------------------------------------------------------
(* The guard of playGame *)

\* the transfer of a claimReward or of a withdrawCreatorFees is in progress
GuardedTransferInProgress ==
    Suspended("claimReward") \cup Suspended("withdrawCreatorFees") # {}

\* C35: playGame is behind the reentrancy guard: a wager submitted while the
\* transfer of a claimReward or of a withdrawCreatorFees is in progress (from
\* the recipient's callback) fails with the reentrancy error and changes
\* nothing, whatever its stake, the pause and the cooldown; a wager that is
\* resolved was entered with the mutex free and leaves it free, and while a
\* guarded transfer is in progress the mutex is held.
C35_WagerIsGuarded ==
    [][/\ GuardedTransferInProgress => locked
       /\ lastCall'.op = "playGame" =>
            /\ \/ Refused(ReentrancyError)
               \/ ~GuardedTransferInProgress
               \/ ~IsAnyWager
            /\ Passes("playGame") =>
                 /\ ~locked
                 /\ ~locked'
                 /\ ~GuardedTransferInProgress
                 /\ stack' = stack]_vars

\* the owner, called with the fees, submitted a wager from the callback and
\* was stopped by the guard
C35_Witness ==
    /\ stack # <<>>
    /\ Top.op = "withdrawCreatorFees"
    /\ Top.amount > 0
    /\ lastCall.op = "playGame"
    /\ lastCall.who = Top.to
    /\ lastCall.status = ReentrancyError
    /\ ~isPaused

----------------------------------------------------------------------------
(* Deposits *)

DepositOps == {"receive", "addFunds"}

\* C36: a plain transfer of value to the contract (receive) and addFunds,
\* by any account, paused or not, at top level or from a callback, never
\* fail; they add exactly the value sent to gameBank and to the balance,
\* take it from the sender, and change nothing else: creatorFees, the reward
\* entries, the player stats, the tier amounts, isPaused, the mutex and the
\* owner are as before.
C36_DepositCreditsThePool ==
    [][lastCall'.op \in DepositOps =>
         LET value == lastCall'.value
             who == lastCall'.who
         IN
         /\ lastCall'.status = Ok
         /\ value = DepositValue
         /\ txCount' = txCount + 1 =>
              /\ gameBank' = gameBank + value
              /\ balance' = balance + value
              /\ wallet'[who] = wallet[who] - value
              /\ \A a \in Accounts \ {who} : wallet'[a] = wallet[a]
              /\ UNCHANGED <<creatorFees, pendingRewards, playerStats,
                             tierToAmount, isPaused, locked, owner, stack>>]_vars

\* a player added funds while the game was paused and fees were pending
C36_Witness ==
    /\ lastCall.op = "addFunds"
    /\ lastCall.who # owner
    /\ lastCall.status = Ok
    /\ lastCall.value = DepositValue
    /\ isPaused
    /\ creatorFees > 0
    /\ gameBank >= DepositValue

----------------------------------------------------------------------------
(* The owner *)

\* C37: the owner is the deployer and stays the deployer: no step, at top
\* level, inside a transfer or undoing one, changes owner, so the calls that
\* get past onlyOwner are those of the deployer and of nobody else.
C37_OwnerIsFixed ==
    [][/\ owner = Deployer
       /\ owner' = owner
       /\ lastCall'.op \in AdminOnly =>
            /\ lastCall'.status \in {Ok, InTransfer} =>
                  lastCall'.who = Deployer
            /\ lastCall'.status = NotOwner => lastCall'.who # Deployer]_vars

\* the owner got past onlyOwner from inside a transfer, after the pool had
\* been funded and three calls had gone through
C37_Witness ==
    /\ owner = Deployer
    /\ stack # <<>>
    /\ gameBank >= DepositValue
    /\ lastCall.op \in AdminOnly
    /\ lastCall.status = Ok
    /\ lastCall.who = Deployer
    /\ txCount >= 3

----------------------------------------------------------------------------
(* What truncation leaves out *)

\* what a Draw and a Lose with stake S add to the three ledgers together
DrawCredited(S) == DrawRefund(S) + DrawCreatorFee(S)
LoseCredited(S) == LoseCreatorFee(S) + LoseGameBank(S)

\* at most S, and short of S by at most 1
ShortByAtMostOne(credited, S) == credited <= S /\ S - credited <= 1

\* what this step adds to the entries of p, creatorFees and gameBank together
CreditedByStep(p) ==
    (SumAmounts(pendingRewards'[p], DOMAIN pendingRewards'[p])
       - SumAmounts(pendingRewards[p], DOMAIN pendingRewards[p]))
    + (creatorFees' - creatorFees) + (gameBank' - gameBank)

\* C38: for a wager resolved as Draw or as Lose with stake S, the amount of
\* the entry added (none for a Lose) plus the increase of creatorFees plus
\* the increase of gameBank is at most S and at least S - 1, each percentage
\* being truncated on its own; the balance grows by S, so what is missing
\* from the ledgers is held by the contract and recorded nowhere.  The two
\* sums are within 1 of S for every stake from 0 to MaxStake as well.
C38_DrawAndLoseLoseAtMostOneUnit ==
    [][(Resolves("Draw") \/ Resolves("Lose")) =>
         LET p == lastCall'.who
             S == lastCall'.value
         IN
         /\ S = tierToAmount[lastCall'.arg]
         /\ ShortByAtMostOne(CreditedByStep(p), S)
         /\ balance' = balance + S
         /\ (balance' - balance) - CreditedByStep(p) \in {0, 1}
         /\ OthersKeepRewards(p)
         /\ Resolves("Draw") => CreditedByStep(p) = DrawCredited(S)
         /\ Resolves("Lose") => CreditedByStep(p) = LoseCredited(S)
         /\ \A stake \in 0..MaxStake :
               /\ ShortByAtMostOne(DrawCredited(stake), stake)
               /\ ShortByAtMostOne(LoseCredited(stake), stake)]_vars

\* a wager of 14 was drawn: 13 to the player, 0 to the creator, 1 left over
C38_Witness ==
    /\ lastCall.op = "playGame"
    /\ lastCall.result = "Draw"
    /\ lastCall.value = 14
    /\ stack = <<>>
    /\ balance - (Outstanding(Accounts) + creatorFees + gameBank) = 1

----------------------------------------------------------------------------
(* withRateLimit (frontend/src/utils): the retry loop around an RPC call.   *)
(* The repository carries two versions, one with jitter ("utils",          *)
(* unnamed/part_013) and one without ("network", utils/network.ts).  A run  *)
(* is followed from the call to the return or the throw; what fn does on   *)
(* each invocation is chosen freely.                                       *)

Versions == {"utils", "network"}

\* the defaults of the options
DefaultBaseDelay == 1000
DefaultMaxDelay(version) == IF version = "utils" THEN 15000 ELSE 5000

\* the options explored
MaxRetriesOption == 3
MaxDelayOptions(version) == {1500, DefaultMaxDelay(version)}

\* Math.random() * 0.5 + 0.5 lies in [0.5, 1): the factors explored, in
\* hundredths
Jitters == {50, 75, 99}

\* the messages fn fails with
Messages ==
    {"429 Too Many Requests", "Rate Limit reached", "request timeout",
     "execution reverted"}

\* the needles of the two default retryOnError that the message contains,
\* as written
Includes(message) ==
    CASE message = "429 Too Many Requests" -> {"429"}
      [] message = "Rate Limit reached" -> {}
      [] message = "request timeout" -> {"timeout"}
      [] OTHER -> {}

\* the needles that error.message.toLowerCase() contains
IncludesLowerCased(message) ==
    CASE message = "429 Too Many Requests" -> {"429", "too many requests"}
      [] message = "Rate Limit reached" -> {"rate limit"}
      [] message = "request timeout" -> {"timeout"}
      [] OTHER -> {}

\* what fn throws: an Error (or a bare value) with a message, told apart by
\* the invocation that threw it
Thrown(isError, message, invocation) ==
    [isError |-> isError, message |-> message, invocation |-> invocation]

\* the default retryOnError of unnamed/part_013
retryOnError_utils(error) ==
    IF ~error.isError THEN FALSE
    ELSE IncludesLowerCased(error.message)
           \cap {"429", "rate limit", "too many requests", "timeout",
                 "exceeded", "requests limited"} # {}

\* the default retryOnError of utils/network.ts
retryOnError_network(error) ==
    /\ error.isError
    /\ Includes(error.message) \cap {"requests limited", "429", "rate limit"}
          # {}

retryOnError(version, error) ==
    IF version = "utils" THEN retryOnError_utils(error)
    ELSE retryOnError_network(error)

Min(a, b) == IF a <= b THEN a ELSE b

RECURSIVE Pow2(_)
\* Math.pow(2, n)
Pow2(n) == IF n = 0 THEN 1 ELSE 2 * Pow2(n - 1)

\* Math.min(baseDelay * Math.pow(2, attempt) * (0.5 + Math.random() * 0.5),
\*          maxDelay)
DelayWithJitter(baseDelay, attempt, jitter, maxDelay) ==
    Min((baseDelay * Pow2(attempt) * jitter) \div 100, maxDelay)

\* Math.min(baseDelay * Math.pow(2, attempt), maxDelay)
DelayPlain(baseDelay, attempt, maxDelay) ==
    Min(baseDelay * Pow2(attempt), maxDelay)

\* withRateLimit(fn, {maxRetries, maxDelay}) is called
Called(version, maxRetries, maxDelay) ==
    [pc |-> "while", version |-> version, maxRetries |-> maxRetries,
     baseDelay |-> DefaultBaseDelay, maxDelay |-> maxDelay, attempt |-> 0,
     hasError |-> FALSE, lastError |-> Thrown(FALSE, "", 0),
     log |-> <<>>, waits |-> <<>>,
     result |-> 0, thrown |-> Thrown(FALSE, "", 0)]

InitRateLimit ==
    /\ locked = FALSE
    /\ owner = Deployer
    /\ creatorFees = 0
    /\ gameBank = 0
    /\ isPaused = FALSE
    /\ tierToAmount = ConstructorTierToAmount
    /\ playerStats = [a \in Accounts |-> [lastPlayTime |-> 0, totalWins |-> 0]]
    /\ pendingRewards = [a \in Accounts |-> <<>>]
    /\ balance = 0
    /\ wallet = [a \in Accounts |-> InitialFunds]
    /\ now = COOLDOWN
    /\ blockNumber = 0
    /\ txCount = 0
    /\ stack = <<>>
    /\ lastCall = Call("constructor", Deployer, Ok, 0, 0, "", 0)
    /\ \E version \in Versions, maxRetries \in 0..MaxRetriesOption :
         \E maxDelay \in MaxDelayOptions(version) :
            rl = Called(version, maxRetries, maxDelay)

\* throw lastError || new Error('Rate limit exceeded after all retries')
\* (utils); throw lastError (network), which is undefined when fn was
\* never invoked
ThrownAfterLoop ==
    IF rl.hasError THEN rl.lastError
    ELSE IF rl.version = "utils"
         THEN Thrown(TRUE, "Rate limit exceeded after all retries", 0)
         ELSE Thrown(FALSE, "undefined", 0)

\* a variant that goes round once more
WhileTest_Inclusive ==
    /\ rl.pc = "while"
    /\ IF rl.attempt <= rl.maxRetries
       THEN rl' = [rl EXCEPT !.pc = "try"]
       ELSE rl' = [rl EXCEPT !.pc = "thrown", !.thrown = ThrownAfterLoop]

\* while (attempt < maxRetries) { ... } throw lastError
WhileTest ==
    /\ rl.pc = "while"
    /\ IF rl.attempt < rl.maxRetries
       THEN rl' = [rl EXCEPT !.pc = "try"]
       ELSE rl' = [rl EXCEPT !.pc = "thrown", !.thrown = ThrownAfterLoop]

\* return await fn(): fn resolves; the value is told apart by the invocation
FnResolves ==
    /\ rl.pc = "try"
    /\ LET invocation == Len(rl.log) + 1 IN
       rl' = [rl EXCEPT !.pc = "returned",
                        !.result = invocation,
                        !.log = Append(@, [ok |-> TRUE, value |-> invocation])]

\* await fn() rejects: catch (error) { lastError = error; ...
FnRejects(isError, message) ==
    /\ rl.pc = "try"
    /\ LET error == Thrown(isError, message, Len(rl.log) + 1) IN
       rl' = [rl EXCEPT !.pc = "catch",
                        !.hasError = TRUE,
                        !.lastError = error,
                        !.log = Append(@, [ok |-> FALSE, error |-> error])]

\* the catch block of unnamed/part_013
Catch_utils(jitter) ==
    LET error == rl.lastError IN
    IF retryOnError(rl.version, error)
    THEN LET attempt == rl.attempt + 1 IN
         IF attempt < rl.maxRetries
         THEN rl' = [rl EXCEPT
                  !.pc = "wait",
                  !.attempt = attempt,
                  !.waits = Append(@, DelayWithJitter(rl.baseDelay, attempt,
                                                      jitter, rl.maxDelay))]
         ELSE rl' = [rl EXCEPT !.pc = "thrown", !.attempt = attempt,
                               !.thrown = error]
    ELSE rl' = [rl EXCEPT !.pc = "thrown", !.thrown = error]

\* the catch block of utils/network.ts, up to the wait
Catch_network ==
    LET error == rl.lastError IN
    IF ~retryOnError(rl.version, error)
    THEN rl' = [rl EXCEPT !.pc = "thrown", !.thrown = error]
    ELSE rl' = [rl EXCEPT
             !.pc = "wait",
             !.waits = Append(@, DelayPlain(rl.baseDelay, rl.attempt,
                                            rl.maxDelay))]

Catch(jitter) ==
    /\ rl.pc = "catch"
    /\ IF rl.version = "utils" THEN Catch_utils(jitter)
       ELSE jitter = 99 /\ Catch_network

\* the timer of the wait fires: continue (utils); attempt++ (network)
TimerFires ==
    /\ rl.pc = "wait"
    /\ IF rl.version = "utils" THEN rl' = [rl EXCEPT !.pc = "while"]
       ELSE rl' = [rl EXCEPT !.pc = "while", !.attempt = @ + 1]

contractVars ==
    <<locked, owner, creatorFees, gameBank, isPaused, tierToAmount,
      playerStats, pendingRewards, balance, wallet, now, blockNumber,
      txCount, stack, lastCall>>

NextRateLimit ==
    \/ WhileTest /\ UNCHANGED contractVars
    \/ FnResolves /\ UNCHANGED contractVars
    \/ \E isError \in BOOLEAN, message \in Messages :
          FnRejects(isError, message) /\ UNCHANGED contractVars
    \/ \E jitter \in Jitters : Catch(jitter) /\ UNCHANGED contractVars
    \/ TimerFires /\ UNCHANGED contractVars

\* every invocation of fn settles and every timer fires: the event loop runs
\* whatever is ready
SpecRateLimit ==
    InitRateLimit /\ [][NextRateLimit]_vars /\ WF_vars(NextRateLimit)

----------------------------------------------------------------------------
(* C39 *)

Invocations == Len(rl.log)

Terminated == rl.pc \in {"returned", "thrown"}

\* invocation i failed with an error that retryOnError accepts
FailedRetryable(i) ==
    /\ ~rl.log[i].ok
    /\ retryOnError(rl.version, rl.log[i].error)

\* the run ended as the claim says
EndedAsClaimed ==
    /\ Invocations <= rl.maxRetries
    /\ \A i \in 1..(Invocations - 1) : FailedRetryable(i)
    /\ \A i \in DOMAIN rl.waits : rl.waits[i] <= rl.maxDelay
    /\ Len(rl.waits) <= Invocations
    /\ rl.pc = "returned" =>
          /\ Invocations >= 1
          /\ rl.log[Invocations].ok
          /\ rl.result = rl.log[Invocations].value
    /\ rl.pc = "thrown" =>
          /\ Invocations >= 1 =>
                /\ ~rl.log[Invocations].ok
                /\ rl.thrown = rl.log[Invocations].error
                /\ FailedRetryable(Invocations) =>
                      Invocations = rl.maxRetries
          /\ Invocations = 0 => rl.maxRetries = 0

\* C39: every run of withRateLimit(fn, {maxRetries}) whose invocations of fn
\* all settle ends, having invoked fn at most maxRetries times: it returns
\* the value of the first invocation that succeeds, which is then the last;
\* it rethrows the error of the first invocation that fails with an error
\* retryOnError refuses, which is then the last; and when all invocations
\* fail with errors retryOnError accepts it rethrows the error of the last
\* after exactly maxRetries of them; every wait is at most maxDelay.
C39_WithRateLimitTerminates == <>(Terminated /\ EndedAsClaimed)

\* all invocations failed with retryable errors and the last was rethrown,
\* after a wait that was cut to maxDelay
C39_Witness ==
    /\ rl.pc = "thrown"
    /\ rl.maxRetries = 3
    /\ Invocations = 3
    /\ \A i \in 1..3 : FailedRetryable(i)
    /\ rl.thrown = rl.log[3].error
    /\ \E i \in DOMAIN rl.waits : rl.waits[i] = rl.maxDelay

====
